---- MODULE Spec2Model ----
(***************************************************************************)
(* The registration-to-scan linking protocol of app.py: the /register,     *)
(* /check_status/<reg_no> and /link_rfid handlers, the module-level        *)
(* WAITING_FOR_SCAN dictionary they share, the per-client Flask session    *)
(* and the Google Sheet the handlers append to and update.                 *)
(*                                                                         *)
(* Every client runs one request at a time; requests of different clients  *)
(* are served by different threads of the development server and           *)
(* interleave.  A handler is cut into steps at its calls to the worksheet   *)
(* (append_row, update_cell, cell), where its thread waits for the network *)
(* and the other threads run.                                              *)
(***************************************************************************)
EXTENDS Naturals, Sequences, FiniteSets, TLC

\* ------------------------------------------------------------------ bounds
MaxLate == 1
MaxRows == 2

\* --------------------------------------------------------------- constants
TIMEOUT_SECONDS == 300

Clients == {"c1", "c2"}

\* Strings the code inspects character by character are sequences of
\* one-character strings.
SHEET_NAME == <<"S", "t", "u", "d", "e", "n", "t", "s">>

\* the None object, equal to no str
None == <<"None">>
Blank == <<>>

\* request.form values of /register; None is a missing form field
FormNames == {None, <<" ">>, <<"A">>, <<"B", " ">>}
FormRegNos == {None, <<>>, <<"R", "1">>, <<" ", "R", "2">>}
\* 'rfid_uid' values of the JSON body of /link_rfid: every client posts the
\* UID of the card at its own reader
JsonUids(c) == IF c = "c1" THEN {<<"U", "1">>} ELSE {<<" ", "U", "2">>}
\* <reg_no> path segments of /check_status
PathRegNos == {<<"R", "1">>, <<"R", "2">>}

\* the readings of time.time() the handlers get: the start, and one timeout
\* after it, up to a few seconds late
Times == {0} \cup {TIMEOUT_SECONDS + late : late \in 0..MaxLate}

\* updatedRange of an append is A1 notation of the cells written: the first
\* cell only, or the span from the first to the last cell
RangeForms == {"cell", "span"}

VARIABLES
    WAITING_FOR_SCAN,   \* dict reg_no -> entry, as the sequence of its items in insertion order
    session,            \* per client: the keys 'waiting_reg_no' and 'linked_reg_no' of its Flask session
    sheet,              \* worksheet: row number -> [reg_no, name, rfid_uid]
    lastRow,            \* last row of the table append_row extends (row 1 is the header)
    now,                \* time.time()
    pc,                 \* per client: where its running request stands
    frame,              \* per client: the locals of its running request
    resp,               \* the response the last step sent, if it finished a request
    rangeForm           \* the form of updatedRange this worksheet answers with

vars == <<WAITING_FOR_SCAN, session, sheet, lastRow, now, pc, frame, resp, rangeForm>>

\* ------------------------------------------------------------ str helpers
RECURSIVE lstrip(_)
lstrip(s) ==
    IF s # <<>> /\ Head(s) = " " THEN lstrip(Tail(s)) ELSE s

RECURSIVE rstrip(_)
rstrip(s) ==
    IF s # <<>> /\ s[Len(s)] = " " THEN rstrip(SubSeq(s, 1, Len(s) - 1)) ELSE s

strip(s) == rstrip(lstrip(s))

Digits == <<"0", "1", "2", "3", "4", "5", "6", "7", "8", "9">>

isdigit(c) == \E d \in 1..10 : Digits[d] = c

DigitValue(c) == (CHOOSE d \in 1..10 : Digits[d] = c) - 1

\* str(n) for a natural number
RECURSIVE str(_)
str(n) ==
    IF n < 10 THEN <<Digits[n + 1]>> ELSE str(n \div 10) \o <<Digits[(n % 10) + 1]>>

\* int(s) for a non-empty string of digits
RECURSIVE int(_)
int(s) ==
    IF Len(s) = 1 THEN DigitValue(s[1])
    ELSE 10 * int(SubSeq(s, 1, Len(s) - 1)) + DigitValue(s[Len(s)])

\* ''.join(filter(str.isdigit, s))
RECURSIVE filter_isdigit(_)
filter_isdigit(s) ==
    IF s = <<>> THEN <<>>
    ELSE IF isdigit(Head(s)) THEN <<Head(s)>> \o filter_isdigit(Tail(s))
    ELSE filter_isdigit(Tail(s))

\* result['updates']['updatedRange'] of an append that wrote row n
updatedRange(n, form) ==
    IF form = "cell" THEN SHEET_NAME \o <<"!", "A">> \o str(n)
    ELSE SHEET_NAME \o <<"!", "A">> \o str(n) \o <<":", "D">> \o str(n)

new_row_index(added_range) == int(filter_isdigit(added_range))

\* ----------------------------------------------------------- dict helpers
Keys(d) == {d[i].reg_no : i \in 1..Len(d)}

IndexOf(d, k) == CHOOSE i \in 1..Len(d) : d[i].reg_no = k

Get(d, k) == d[IndexOf(d, k)]

\* d = {k: v}: the new entry is the only one
SetSingle(d, k, v) == <<v>>

\* d.setdefault(k, v): an existing key keeps its entry
SetDefault(d, k, v) ==
    IF k \in {d[i].reg_no : i \in 1..Len(d)} THEN d ELSE Append(d, v)

\* d[k] = v: an existing key keeps its place, a new key goes last
SetItem(d, k, v) ==
    IF k \in Keys(d) THEN [d EXCEPT ![IndexOf(d, k)] = v] ELSE Append(d, v)

\* d.clear()
PopAll(d, k) == <<>>

\* d.get(k): the entry stays
PopNothing(d, k) == d

\* d.pop(k) for a key that is present
Pop(d, k) ==
    LET i == IndexOf(d, k)
    IN  SubSeq(d, 1, i - 1) \o SubSeq(d, i + 1, Len(d))

\* min(d, key=lambda k: d[k]['timestamp']): the first key in iteration order
\* whose timestamp no other key undercuts
RECURSIVE MinFrom(_, _, _)
MinFrom(d, i, best) ==
    IF i > Len(d) THEN best
    ELSE IF d[i].timestamp < d[best].timestamp THEN MinFrom(d, i + 1, i)
    ELSE MinFrom(d, i + 1, best)

\* the key inserted last
NewestKey(d) == d[Len(d)].reg_no

OldestKey(d) == d[MinFrom(d, 2, 1)].reg_no

\* ---------------------------------------------------------- sheet helpers
EmptyRow == [reg_no |-> Blank, name |-> None, rfid_uid |-> Blank]

\* sheet.update_cell(row, RFID_UID_COLUMN, value); a row below the table is
\* a row of empty cells
UpdateCell(sh, row, value) ==
    IF row \in DOMAIN sh THEN [sh EXCEPT ![row].rfid_uid = value]
    ELSE [r \in (DOMAIN sh) \cup {row} |->
            IF r = row THEN [EmptyRow EXCEPT !.rfid_uid = value] ELSE sh[r]]

\* sheet.cell(row, RFID_UID_COLUMN).value
CellUid(sh, row) == IF row \in DOMAIN sh THEN sh[row].rfid_uid ELSE Blank

\* sheet.cell(row, 2).value
CellName(sh, row) == IF row \in DOMAIN sh THEN sh[row].name ELSE None

\* sheet.append_row([reg_no, name, '', date])
AppendRow(sh, row, reg_no, name) ==
    [r \in (DOMAIN sh) \cup {row} |->
        IF r = row
        THEN [reg_no |-> reg_no, name |-> name,
              rfid_uid |-> IF row \in DOMAIN sh THEN sh[row].rfid_uid ELSE Blank]
        ELSE sh[r]]

\* --------------------------------------------------------------- requests
NoFrame == [op |-> "none"]
NoResp == [op |-> "none", client |-> "none"]

Response(op, status, http, message, reg_no, name) ==
    [op |-> op, client |-> "none", status |-> status, http |-> http,
     message |-> message, reg_no |-> reg_no, name |-> name]

Init ==
    /\ WAITING_FOR_SCAN = <<>>
    /\ session = [c \in Clients |-> [waiting_reg_no |-> None, linked_reg_no |-> None]]
    /\ sheet = [r \in {} |-> EmptyRow]
    /\ lastRow = 1
    /\ now = 0
    /\ pc = [c \in Clients |-> "idle"]
    /\ frame = [c \in Clients |-> NoFrame]
    /\ resp = NoResp
    /\ rangeForm \in RangeForms

Finish(c, r) ==
    /\ pc' = [pc EXCEPT ![c] = "idle"]
    /\ frame' = [frame EXCEPT ![c] = NoFrame]
    /\ resp' = [r EXCEPT !.client = c]

Goto(c, label, f) ==
    /\ pc' = [pc EXCEPT ![c] = label]
    /\ frame' = [frame EXCEPT ![c] = f]
    /\ resp' = NoResp

\* the clock
Tick ==
    /\ \E later \in Times :
        /\ later > now
        /\ now' = later
    /\ resp' = NoResp
    /\ UNCHANGED <<WAITING_FOR_SCAN, session, sheet, lastRow, pc, frame, rangeForm>>

\* -------------------------------------------------------- session helpers
\* session.get(key): the key stays
SessionPeek(s, c, key) == s

\* session.pop(key, None)
SessionPop(s, c, key) == [s EXCEPT ![c][key] = None]

\* session[key] = value
SessionSet(s, c, key, value) == [s EXCEPT ![c][key] = value]

\* ------------------------------------------------------------- /register
\* lines 76-91: read and validate the form, get_sheet(), append the row
RegisterAppendRow(c) ==
    /\ pc[c] = "idle"
    /\ lastRow < 1 + MaxRows
    /\ \E form_name \in FormNames, form_reg_no \in FormRegNos :
        IF form_name = None \/ form_reg_no = None
        THEN /\ Finish(c, Response("register", "exception", 500, "AttributeError", None, None))
             /\ UNCHANGED <<sheet, lastRow>>
        ELSE LET name == strip(form_name)
                 reg_no == strip(form_reg_no)
             IN  IF name = <<>> \/ reg_no = <<>>
                 THEN /\ Finish(c, Response("register", "error", 200,
                                   "Name and Register Number are required.", None, None))
                      /\ UNCHANGED <<sheet, lastRow>>
                 ELSE \E connected \in BOOLEAN, appended \in BOOLEAN :
                        IF ~connected
                        THEN /\ Finish(c, Response("register", "error", 500,
                                          "Could not connect to database.", None, None))
                             /\ UNCHANGED <<sheet, lastRow>>
                        ELSE IF ~appended
                        THEN /\ Finish(c, Response("register", "error", 500,
                                          "Failed to save registration data", None, None))
                             /\ UNCHANGED <<sheet, lastRow>>
                        ELSE /\ sheet' = AppendRow(sheet, lastRow + 1, reg_no, name)
                             /\ lastRow' = lastRow + 1
                             /\ Goto(c, "register_L95",
                                     [op |-> "register", name |-> name, reg_no |-> reg_no,
                                      added_range |-> updatedRange(lastRow + 1, rangeForm)])
    /\ UNCHANGED <<WAITING_FOR_SCAN, session, now, rangeForm>>

\* lines 95-112: take the row index out of the range, insert, mark the session
RegisterInsert(c) ==
    /\ pc[c] = "register_L95"
    /\ WAITING_FOR_SCAN' =
            SetItem(WAITING_FOR_SCAN, frame[c].reg_no,
                    [reg_no |-> frame[c].reg_no, name |-> frame[c].name,
                     timestamp |-> now,
                     row_index |-> new_row_index(frame[c].added_range)])
    /\ Finish(c, Response("register", "waiting", 200, "Waiting for RFID scan...",
                          frame[c].reg_no, frame[c].name))
    /\ session' = SessionSet(session, c, "waiting_reg_no", frame[c].reg_no)
    /\ UNCHANGED <<sheet, lastRow, now, rangeForm>>

register(c) ==
    \/ RegisterAppendRow(c)
    \/ RegisterInsert(c)

\* ------------------------------------------------- /check_status/<reg_no>
\* the answer without the timeout test: an entry waits however old it is
StatusNoExpiry(c, reg_no) ==
    IF reg_no \notin Keys(WAITING_FOR_SCAN)
    THEN IF session[c].linked_reg_no = reg_no THEN "linked" ELSE "error"
    ELSE "waiting"

\* the answer with the session looked at before the dictionary
StatusSignalFirst(c, reg_no) ==
    IF session[c].linked_reg_no = reg_no THEN "linked"
    ELSE IF reg_no \notin Keys(WAITING_FOR_SCAN) THEN "error"
    ELSE IF now - Get(WAITING_FOR_SCAN, reg_no).timestamp > TIMEOUT_SECONDS
         THEN "timeout"
         ELSE "waiting"

\* the answer with an entry expiring at the timeout, not after it
StatusInclusive(c, reg_no) ==
    IF reg_no \notin Keys(WAITING_FOR_SCAN)
    THEN IF session[c].linked_reg_no = reg_no THEN "linked" ELSE "error"
    ELSE IF now - Get(WAITING_FOR_SCAN, reg_no).timestamp >= TIMEOUT_SECONDS
         THEN "timeout"
         ELSE "waiting"

\* the 'status' check_status answers client c with (lines 122-136)
StatusOf(c, reg_no) ==
    IF reg_no \notin Keys(WAITING_FOR_SCAN)
    THEN IF session[c].linked_reg_no = reg_no THEN "linked" ELSE "error"
    ELSE IF now - Get(WAITING_FOR_SCAN, reg_no).timestamp > TIMEOUT_SECONDS
         THEN "timeout"
         ELSE "waiting"

\* every answer goes out with the default status code
HttpDefault(status) == 200

\* the HTTP status code check_status sends with a 'status' (lines 125-136)
HttpOf(status) == IF status = "timeout" THEN 408 ELSE 200

\* lines 122-136
check_status(c) ==
    /\ pc[c] = "idle"
    /\ \E reg_no \in PathRegNos :
        LET status == StatusOf(c, reg_no)
        IN  CASE status = "linked" ->
                    /\ session' = SessionPop(session, c, "linked_reg_no")
                    /\ Finish(c, Response("check_status", "linked", HttpOf(status),
                                          "Card linked successfully!", reg_no, None))
                    /\ UNCHANGED WAITING_FOR_SCAN
              [] status = "error" ->
                    /\ Finish(c, Response("check_status", "error", HttpOf(status),
                                          "Session expired or invalid.", reg_no, None))
                    /\ UNCHANGED <<WAITING_FOR_SCAN, session>>
              [] status = "timeout" ->
                    /\ WAITING_FOR_SCAN' = Pop(WAITING_FOR_SCAN, reg_no)
                    /\ session' = SessionPop(session, c, "waiting_reg_no")
                    /\ Finish(c, Response("check_status", "timeout", HttpOf(status),
                                          "Linking session timed out.", reg_no, None))
              [] status = "waiting" ->
                    /\ Finish(c, Response("check_status", "waiting", HttpOf(status),
                                          "Still waiting for RFID scan...", reg_no, None))
                    /\ UNCHANGED <<WAITING_FOR_SCAN, session>>
    /\ UNCHANGED <<sheet, lastRow, now, rangeForm>>

\* ------------------------------------------------------------ /link_rfid
\* the test left out
NeverNobodyWaiting(d) == FALSE

\* line 149: not WAITING_FOR_SCAN
NobodyWaiting(d) == d = <<>>

\* the entry leaves the dictionary whatever the sheet answered
CleanupAlways(d, k, success) == IF k \in Keys(d) THEN Pop(d, k) ELSE d

\* lines 166-181: the entry leaves the dictionary when the sheet was updated
\* and read back, and stays when it was not
Cleanup(d, k, success) == IF success THEN Pop(d, k) ELSE d

\* lines 144-164 and 47-49: read the UID, refuse when nobody is waiting, pick
\* the oldest waiting student, get_sheet(); min() of an empty dict raises
LinkSelect(c) ==
    /\ pc[c] = "idle"
    /\ \E json_uid \in JsonUids(c) :
        LET rfid_uid == strip(json_uid)
        IN  IF NobodyWaiting(WAITING_FOR_SCAN)
            THEN /\ Finish(c, Response("link_rfid", "error", 404,
                              "No active linking session found.", None, None))
                 /\ UNCHANGED WAITING_FOR_SCAN
            ELSE IF Len(WAITING_FOR_SCAN) = 0
            THEN /\ Finish(c, Response("link_rfid", "error", 500,
                              "Internal server error during linking.", None, None))
                 /\ UNCHANGED WAITING_FOR_SCAN
            ELSE LET waiting_reg_no == OldestKey(WAITING_FOR_SCAN)
                     student_data == Get(WAITING_FOR_SCAN, waiting_reg_no)
                 IN  \E connected \in BOOLEAN :
                        IF connected
                        THEN /\ Goto(c, "link_rfid_L57",
                                     [op |-> "link_rfid", rfid_uid |-> rfid_uid,
                                      waiting_reg_no |-> waiting_reg_no,
                                      row_to_update |-> student_data.row_index,
                                      student_name |-> student_data.name])
                             /\ UNCHANGED WAITING_FOR_SCAN
                        ELSE /\ Finish(c, Response("link_rfid", "error", 500,
                                          "Database connection failed.", None, None))
                             /\ WAITING_FOR_SCAN' =
                                    Cleanup(WAITING_FOR_SCAN, waiting_reg_no, FALSE)
    /\ UNCHANGED <<session, sheet, lastRow, now, rangeForm>>

\* line 57: sheet.update_cell(row_index, RFID_UID_COLUMN, rfid_uid); the frame
\* keeps whether that changed the cell, for the properties of a scan as a whole
LinkUpdateCell(c) ==
    /\ pc[c] = "link_rfid_L57"
    /\ \E updated \in BOOLEAN :
        IF updated
        THEN /\ sheet' = UpdateCell(sheet, frame[c].row_to_update, frame[c].rfid_uid)
             /\ Goto(c, "link_rfid_L60",
                     [op |-> "link_rfid", rfid_uid |-> frame[c].rfid_uid,
                      waiting_reg_no |-> frame[c].waiting_reg_no,
                      row_to_update |-> frame[c].row_to_update,
                      student_name |-> frame[c].student_name,
                      wrote |-> CellUid(sheet, frame[c].row_to_update) # frame[c].rfid_uid])
             /\ UNCHANGED WAITING_FOR_SCAN
        ELSE /\ Finish(c, Response("link_rfid", "error", 500,
                          "Failed to update database.", None, None))
             /\ WAITING_FOR_SCAN' = Cleanup(WAITING_FOR_SCAN, frame[c].waiting_reg_no, FALSE)
             /\ UNCHANGED sheet
    /\ UNCHANGED <<session, lastRow, now, rangeForm>>

\* lines 60 and 166-185: sheet.cell(row_index, 2).value, then mark the
\* session, drop the entry and answer; pop() of a key that is gone raises
LinkFinish(c) ==
    /\ pc[c] = "link_rfid_L60"
    /\ \E read \in BOOLEAN :
        IF read
        THEN LET result_name == CellName(sheet, frame[c].row_to_update)
             IN  /\ session' = SessionSet(session, c, "linked_reg_no", frame[c].waiting_reg_no)
                 /\ IF frame[c].waiting_reg_no \in Keys(WAITING_FOR_SCAN)
                    THEN /\ WAITING_FOR_SCAN' =
                                Cleanup(WAITING_FOR_SCAN, frame[c].waiting_reg_no, TRUE)
                         /\ Finish(c, Response("link_rfid", "linked", 200, "Card linked",
                                               frame[c].waiting_reg_no, result_name))
                    ELSE /\ Finish(c, Response("link_rfid", "error", 500,
                                      "Internal server error during linking.", None, None))
                         /\ UNCHANGED WAITING_FOR_SCAN
        ELSE /\ Finish(c, Response("link_rfid", "error", 500,
                          "Failed to update database.", None, None))
             /\ WAITING_FOR_SCAN' = Cleanup(WAITING_FOR_SCAN, frame[c].waiting_reg_no, FALSE)
             /\ UNCHANGED session
    /\ UNCHANGED <<sheet, lastRow, now, rangeForm>>

link_rfid(c) ==
    \/ LinkSelect(c)
    \/ LinkUpdateCell(c)
    \/ LinkFinish(c)

\* ------------------------------------------------------------------ system
Next ==
    \/ Tick
    \/ \E c \in Clients : register(c)
    \/ \E c \in Clients : check_status(c)
    \/ \E c \in Clients : link_rfid(c)

Spec == Init /\ [][Next]_vars

\* ------------------------------------------------------------ properties
Linking == {"link_rfid_L57", "link_rfid_L60"}

\* the step is client c's link_rfid picking its student (lines 155-159)
Selects(c) == pc[c] = "idle" /\ pc'[c] = "link_rfid_L57"

\* the step ends a request of client c to handler op
Answers(c, op) == resp'.client = c /\ resp'.op = op /\ pc'[c] = "idle"

\* the step is a step of a link_rfid of client c
ScanStep(c) ==
    \/ Selects(c)
    \/ pc[c] = "idle" /\ Answers(c, "link_rfid")
    \/ pc[c] \in Linking /\ pc'[c] # pc[c]

\* the step is client c's link_rfid answering 'linked' (lines 166-178)
Links(c) ==
    /\ pc[c] = "link_rfid_L60"
    /\ Answers(c, "link_rfid") /\ resp'.status = "linked"

\* the step is client c's link_rfid answering that the sheet failed
\* (lines 49, 64 and 181)
SheetFails(c) ==
    /\ Answers(c, "link_rfid")
    /\ resp'.message \in {"Database connection failed.", "Failed to update database."}

\* the entry of reg_no has outlived the timeout
Expired(reg_no) == now - Get(WAITING_FOR_SCAN, reg_no).timestamp > TIMEOUT_SECONDS

\* C1: a scan picks the entry with the smallest timestamp of all entries in
\* WAITING_FOR_SCAN at that moment, and a scan that answers 'linked' removes
\* the reg_no it picked and leaves every other entry as it was.
C1_OldestFirst ==
    [][\A c \in Clients :
        /\ Selects(c) =>
            /\ frame'[c].waiting_reg_no \in Keys(WAITING_FOR_SCAN)
            /\ \A k \in Keys(WAITING_FOR_SCAN) :
                Get(WAITING_FOR_SCAN, frame'[c].waiting_reg_no).timestamp
                    <= Get(WAITING_FOR_SCAN, k).timestamp
            /\ frame'[c].row_to_update =
                    Get(WAITING_FOR_SCAN, frame'[c].waiting_reg_no).row_index
            /\ WAITING_FOR_SCAN' = WAITING_FOR_SCAN
        /\ Links(c) =>
            /\ resp'.reg_no = frame[c].waiting_reg_no
            /\ Keys(WAITING_FOR_SCAN') = Keys(WAITING_FOR_SCAN) \ {resp'.reg_no}
            /\ \A k \in Keys(WAITING_FOR_SCAN') :
                Get(WAITING_FOR_SCAN', k) = Get(WAITING_FOR_SCAN, k)
      ]_vars

\* a scan has linked the older of two registrations and the newer one is
\* still waiting
C1_Witness ==
    /\ resp.op = "link_rfid" /\ resp.status = "linked"
    /\ Len(WAITING_FOR_SCAN) = 1
    /\ WAITING_FOR_SCAN[1].reg_no # resp.reg_no
    /\ WAITING_FOR_SCAN[1].timestamp = TIMEOUT_SECONDS
    /\ now = TIMEOUT_SECONDS

\* C2: a scan never links a registration older than the timeout: the entry
\* it picks has not expired (it picks the oldest entry that has not, and
\* none when all have).
C2_NoStaleLink ==
    [][\A c \in Clients :
        Selects(c) => ~Expired(frame'[c].waiting_reg_no)
      ]_vars

\* C3: once a scan has linked reg_no, check_status(reg_no) answers 'linked'
\* to the client whose session registered it.
C3_RegistrantLearns ==
    [][\A c \in Clients :
        Links(c) =>
            \A s \in Clients :
                \A r \in PathRegNos :
                    ( resp'.reg_no = r /\ session[s].waiting_reg_no = r )
                        => StatusOf(s, r)' = "linked"
      ]_vars

\* C4: no two scans have picked the same waiting registration and written
\* their UIDs into its row.
C4_AtMostOnce ==
    \A c \in Clients, s \in Clients :
        ( /\ c # s
          /\ pc[c] = "link_rfid_L60"
          /\ pc[s] = "link_rfid_L60" )
        => ~( /\ frame[c].waiting_reg_no = frame[s].waiting_reg_no
              /\ frame[c].row_to_update = frame[s].row_to_update )

\* C5: check_status never answers 'timeout' for a registration into whose
\* row a scan that is still running has written its UID.
C5_TimeoutOrLink ==
    [][\A c \in Clients :
        ( /\ Answers(c, "check_status")
          /\ resp'.status = "timeout" )
        => \A s \in Clients :
            ~( /\ pc[s] = "link_rfid_L60"
               /\ frame[s].waiting_reg_no = resp'.reg_no
               /\ frame[s].row_to_update =
                    Get(WAITING_FOR_SCAN, resp'.reg_no).row_index )
      ]_vars

\* C6: a scan that answers 'linked' takes exactly one entry out of
\* WAITING_FOR_SCAN, the one whose reg_no the answer carries, and no other
\* step of a scan takes any out.
C6_ExactlyOne ==
    [][\A c \in Clients :
        /\ Links(c) =>
            /\ Len(WAITING_FOR_SCAN') = Len(WAITING_FOR_SCAN) - 1
            /\ resp'.reg_no \in Keys(WAITING_FOR_SCAN)
            /\ resp'.reg_no \notin Keys(WAITING_FOR_SCAN')
            /\ resp'.http = 200
        /\ ( ScanStep(c) /\ ~Links(c) )
           => WAITING_FOR_SCAN' = WAITING_FOR_SCAN
      ]_vars

\* a scan has linked the only waiting registration
C6_Witness ==
    /\ resp.op = "link_rfid" /\ resp.status = "linked"
    /\ resp.reg_no = <<"R", "2">>
    /\ WAITING_FOR_SCAN = <<>>

\* C7: a scan that the sheet fails (no connection, update_cell or cell
\* raising) answers 500 'error' and leaves WAITING_FOR_SCAN and every
\* session as they were.
C7_FailureKeepsEntry ==
    [][\A c \in Clients :
        SheetFails(c) =>
            /\ resp'.status = "error" /\ resp'.http = 500
            /\ WAITING_FOR_SCAN' = WAITING_FOR_SCAN
            /\ session' = session
      ]_vars

\* update_cell or cell has failed a scan and the registration it had picked
\* is still waiting, the oldest as before
C7_Witness ==
    /\ resp.op = "link_rfid" /\ resp.message = "Failed to update database."
    /\ Len(WAITING_FOR_SCAN) = 2
    /\ OldestKey(WAITING_FOR_SCAN) = <<"R", "1">>
    /\ \A c \in Clients : session[c].linked_reg_no = None

\* C8: a scan that finds WAITING_FOR_SCAN empty answers 404 'error', and
\* changes neither the sheet, nor the dictionary, nor a session; no other
\* scan answers 404.
C8_EmptyRegistry ==
    [][\A c \in Clients :
        /\ ( /\ pc[c] = "idle"
             /\ ScanStep(c)
             /\ WAITING_FOR_SCAN = <<>> )
           => /\ Answers(c, "link_rfid")
              /\ resp'.status = "error" /\ resp'.http = 404
              /\ resp'.message = "No active linking session found."
              /\ UNCHANGED <<WAITING_FOR_SCAN, sheet, lastRow, session>>
        /\ ( /\ Answers(c, "link_rfid")
             /\ resp'.http = 404 )
           => pc[c] = "idle" /\ WAITING_FOR_SCAN = <<>>
      ]_vars

\* a scan was answered 404 after the one registration timed out
C8_Witness ==
    /\ resp.op = "link_rfid" /\ resp.http = 404
    /\ WAITING_FOR_SCAN = <<>>
    /\ lastRow = 2 /\ \A c \in Clients : pc[c] = "idle"
    /\ \A r \in DOMAIN sheet : sheet[r].rfid_uid = Blank

\* C9: check_status answers 'timeout' (408) for an entry older than the
\* timeout and removes it; for a reg_no that is not waiting it never answers
\* 'timeout'; and a reg_no that is not waiting comes back only by a register.
C9_TimeoutOnce ==
    [][ /\ \A c \in Clients :
            Answers(c, "check_status") =>
                /\ ( resp'.reg_no \in Keys(WAITING_FOR_SCAN) /\ Expired(resp'.reg_no) )
                    => /\ resp'.status = "timeout" /\ resp'.http = 408
                       /\ resp'.reg_no \notin Keys(WAITING_FOR_SCAN')
                /\ resp'.status = "timeout"
                    => /\ resp'.reg_no \in Keys(WAITING_FOR_SCAN)
                       /\ Expired(resp'.reg_no)
                       /\ \A s \in Clients, r \in PathRegNos :
                            resp'.reg_no = r => StatusOf(s, r)' # "timeout"
                /\ resp'.reg_no \notin Keys(WAITING_FOR_SCAN)
                    => /\ resp'.status \in {"linked", "error"}
                       /\ WAITING_FOR_SCAN' = WAITING_FOR_SCAN
        /\ \A k \in Keys(WAITING_FOR_SCAN') \ Keys(WAITING_FOR_SCAN) :
            /\ resp'.op = "register" /\ resp'.status = "waiting"
            /\ resp'.reg_no = k
      ]_vars

\* the registration of time 0 was polled one second after its timeout:
\* 'timeout', and the dictionary is empty
C9_Witness ==
    /\ resp.op = "check_status" /\ resp.status = "timeout"
    /\ now = TIMEOUT_SECONDS + 1
    /\ WAITING_FOR_SCAN = <<>>
    /\ StatusOf(resp.client, resp.reg_no) = "error"

\* C10: a check_status that answers 'linked' found the client's
\* 'linked_reg_no' equal to the reg_no and clears it, so that the client's
\* next check_status of the reg_no answers 'error'; and 'linked_reg_no'
\* changes only when a scan of the client sets it or such a check_status
\* clears it.
C10_SingleConsumption ==
    [][\A c \in Clients :
        /\ ( Answers(c, "check_status") /\ resp'.status = "linked" )
            => /\ session[c].linked_reg_no = resp'.reg_no
               /\ session'[c].linked_reg_no = None
               /\ \A r \in PathRegNos :
                    resp'.reg_no = r => StatusOf(c, r)' = "error"
        /\ session'[c].linked_reg_no # session[c].linked_reg_no
            => \/ /\ pc[c] = "link_rfid_L60"
                  /\ session'[c].linked_reg_no = frame[c].waiting_reg_no
               \/ /\ Answers(c, "check_status") /\ resp'.status = "linked"
                  /\ session'[c].linked_reg_no = None
      ]_vars

\* a client's check_status was answered 'linked' and its signal is gone
C10_Witness ==
    /\ resp.op = "check_status" /\ resp.status = "linked"
    /\ session[resp.client].linked_reg_no = None
    /\ resp.reg_no \notin Keys(WAITING_FOR_SCAN)

\* the step is client c's register storing its entry (lines 99-112)
Inserts(c) ==
    /\ pc[c] = "register_L95"
    /\ Answers(c, "register") /\ resp'.status = "waiting"

\* C11: WAITING_FOR_SCAN never holds two entries of one reg_no; a register
\* that answers 'waiting' leaves under its reg_no the name it was given, the
\* time of the insert and the row index it took from its append, whatever
\* entry the reg_no had before, and leaves the other entries alone; and no
\* step but such a register changes the entry of a reg_no that stays.
C11_LastInsertWins ==
    [][ /\ \A i \in 1..Len(WAITING_FOR_SCAN'), j \in 1..Len(WAITING_FOR_SCAN') :
            WAITING_FOR_SCAN'[i].reg_no = WAITING_FOR_SCAN'[j].reg_no => i = j
        /\ \A c \in Clients :
            Inserts(c) =>
                /\ resp'.reg_no = frame[c].reg_no
                /\ frame[c].reg_no \in Keys(WAITING_FOR_SCAN')
                /\ Get(WAITING_FOR_SCAN', frame[c].reg_no) =
                        [reg_no |-> frame[c].reg_no, name |-> frame[c].name,
                         timestamp |-> now,
                         row_index |-> new_row_index(frame[c].added_range)]
                /\ Keys(WAITING_FOR_SCAN') = Keys(WAITING_FOR_SCAN) \cup {frame[c].reg_no}
                /\ \A k \in Keys(WAITING_FOR_SCAN) \ {frame[c].reg_no} :
                        Get(WAITING_FOR_SCAN', k) = Get(WAITING_FOR_SCAN, k)
        /\ \A k \in Keys(WAITING_FOR_SCAN) \cap Keys(WAITING_FOR_SCAN') :
            Get(WAITING_FOR_SCAN', k) # Get(WAITING_FOR_SCAN, k)
                => \E c \in Clients : Inserts(c) /\ frame[c].reg_no = k
      ]_vars

\* R1 was registered at time 0 under one name and again at the timeout under
\* another: one entry, with the second name, time and row
C11_Witness ==
    /\ resp.op = "register" /\ resp.status = "waiting"
    /\ resp.reg_no = <<"R", "1">> /\ resp.name = <<"B">>
    /\ lastRow = 3
    /\ sheet[2].reg_no = <<"R", "1">> /\ sheet[2].name = <<"A">>
    /\ sheet[3].reg_no = <<"R", "1">>
    /\ Len(WAITING_FOR_SCAN) = 1
    /\ WAITING_FOR_SCAN[1] =
            [reg_no |-> <<"R", "1">>, name |-> <<"B">>, timestamp |-> TIMEOUT_SECONDS,
             row_index |-> new_row_index(updatedRange(3, rangeForm))]

\* the entry refers to a row of the sheet that holds its reg_no
Backed(entry, sh) ==
    /\ entry.row_index \in DOMAIN sh
    /\ sh[entry.row_index].reg_no = entry.reg_no

\* C12: a register that does not answer 'waiting' (empty name or reg_no, no
\* connection, append failing) leaves WAITING_FOR_SCAN and the sessions as
\* they were; an entry is stored only by a register whose append has
\* returned; and every entry of WAITING_FOR_SCAN refers to a row that was
\* appended for its reg_no.
C12_NoOrphanEntry ==
    [][ /\ \A c \in Clients :
            ( Answers(c, "register") /\ resp'.status # "waiting" )
                => WAITING_FOR_SCAN' = WAITING_FOR_SCAN /\ session' = session
        /\ \A k \in Keys(WAITING_FOR_SCAN') \ Keys(WAITING_FOR_SCAN) :
            \E c \in Clients : Inserts(c) /\ frame[c].reg_no = k
        /\ \A i \in 1..Len(WAITING_FOR_SCAN') : Backed(WAITING_FOR_SCAN'[i], sheet')
      ]_vars

\* C13: when a scan with UID c answers 'linked' for reg_no, the row of the
\* sheet the entry of reg_no refers to is a row of reg_no and holds
\* rfid_uid = c, reg_no is no longer in WAITING_FOR_SCAN, and the answer
\* carries that reg_no and the name registered for it.
C13_LinkedRecord ==
    [][\A c \in Clients :
        Links(c) =>
            LET waiting_reg_no == frame[c].waiting_reg_no
                student_data == Get(WAITING_FOR_SCAN, waiting_reg_no)
            IN  /\ Backed(student_data, sheet')
                /\ sheet'[student_data.row_index].rfid_uid = frame[c].rfid_uid
                /\ waiting_reg_no \notin Keys(WAITING_FOR_SCAN')
                /\ resp'.reg_no = waiting_reg_no
                /\ resp'.name = student_data.name
      ]_vars

\* ------------------------------------------- registrations nobody scans
\* time.time() goes on: past the timeout of every entry that waits
Clock ==
    /\ \E later \in Times \cup {WAITING_FOR_SCAN[i].timestamp + TIMEOUT_SECONDS + 1 :
                                    i \in 1..Len(WAITING_FOR_SCAN)} :
        /\ later > now
        /\ now' = later
    /\ resp' = NoResp
    /\ UNCHANGED <<WAITING_FOR_SCAN, session, sheet, lastRow, pc, frame, rangeForm>>

\* the step is a check_status of reg_no
Polls(reg_no) == \E c \in Clients : check_status(c) /\ resp'.reg_no = reg_no

\* no card is presented: the clients register and poll
NoScanNext ==
    \/ Clock
    \/ \E c \in Clients : register(c)
    \/ \E c \in Clients : check_status(c)

\* time advances, a register that has appended its row goes on to store its
\* entry, and every reg_no keeps being polled
NoScanSpec ==
    /\ Init /\ [][NoScanNext]_vars
    /\ WF_vars(Clock)
    /\ \A c \in Clients : WF_vars(RegisterInsert(c))
    /\ \A reg_no \in PathRegNos : WF_vars(Polls(reg_no))

\* the last answer is a check_status of reg_no answering 'timeout'
TimedOut(reg_no) ==
    /\ resp.op = "check_status" /\ resp.status = "timeout" /\ resp.http = 408
    /\ resp.reg_no = reg_no

\* C14: when no scan comes, time advances and the polls go on, an entry of
\* WAITING_FOR_SCAN does not stay: some check_status of its reg_no answers
\* 'timeout' and the reg_no is out of the dictionary.
C14_EventualTimeout ==
    \A reg_no \in PathRegNos :
        ( reg_no \in Keys(WAITING_FOR_SCAN) )
            ~> ( TimedOut(reg_no) /\ reg_no \notin Keys(WAITING_FOR_SCAN) )

\* R1 was registered twice, the second time after the timeout of the first,
\* and the poll one second after the second timeout was answered 'timeout'
C14_Witness ==
    /\ TimedOut(<<"R", "1">>)
    /\ WAITING_FOR_SCAN = <<>>
    /\ lastRow = 3 /\ sheet[2].reg_no = <<"R", "1">> /\ sheet[3].reg_no = <<"R", "1">>
    /\ now = 2 * TIMEOUT_SECONDS + 2

\* C15: check_status answers with HTTP 408 exactly when its 'status' is
\* 'timeout', and with HTTP 200 when it is 'waiting', 'linked' or 'error'
\* ('Session expired or invalid.'); it has no other answer.
C15_HttpCodes ==
    [][\A c \in Clients :
        Answers(c, "check_status") =>
            /\ resp'.status \in {"timeout", "waiting", "linked", "error"}
            /\ \A r \in PathRegNos : resp'.reg_no = r => resp'.status = StatusOf(c, r)
            /\ resp'.http = 408 <=> resp'.status = "timeout"
            /\ resp'.status \in {"waiting", "linked", "error"} => resp'.http = 200
            /\ resp'.status = "error" => resp'.message = "Session expired or invalid."
      ]_vars

\* a poll was answered 408 while another registration, made at the timeout
\* of the first, is waiting
C15_Witness ==
    /\ resp.op = "check_status" /\ resp.http = 408 /\ resp.status = "timeout"
    /\ Len(WAITING_FOR_SCAN) = 1
    /\ WAITING_FOR_SCAN[1].timestamp = TIMEOUT_SECONDS
    /\ StatusOf(resp.client, WAITING_FOR_SCAN[1].reg_no) = "waiting"

\* C16: a check_status of a reg_no that is in WAITING_FOR_SCAN answers
\* 'waiting' or 'timeout', never 'linked', and leaves the caller's
\* 'linked_reg_no' as it was, also when it is that reg_no.
C16_RegistryFirst ==
    [][\A c \in Clients :
        ( /\ Answers(c, "check_status")
          /\ resp'.reg_no \in Keys(WAITING_FOR_SCAN) )
        => /\ resp'.status \in {"waiting", "timeout"}
           /\ session'[c].linked_reg_no = session[c].linked_reg_no
      ]_vars

\* a client whose scan linked R1 and who registered R1 again polls R1: it is
\* answered 'waiting' and its 'linked_reg_no' is still R1
C16_Witness ==
    /\ resp.op = "check_status" /\ resp.status = "waiting"
    /\ resp.reg_no = <<"R", "1">>
    /\ session[resp.client].linked_reg_no = <<"R", "1">>
    /\ <<"R", "1">> \in Keys(WAITING_FOR_SCAN)

\* the step is a check_status of client c evicting an expired entry
\* (lines 130-134)
Evicts(c) == Answers(c, "check_status") /\ resp'.status = "timeout"

\* C17: a reg_no leaves WAITING_FOR_SCAN only in the step of a scan that
\* had picked it and answers 'linked' for it, or in the step of a
\* check_status that answers 'timeout' for it; a register, a check_status
\* with another answer, a scan that fails and a scan that finds nobody
\* waiting take no reg_no out.
C17_TwoWaysOut ==
    [][ /\ \A k \in Keys(WAITING_FOR_SCAN) \ Keys(WAITING_FOR_SCAN') :
            \E c \in Clients :
                \/ Links(c) /\ frame[c].waiting_reg_no = k /\ resp'.reg_no = k
                \/ Evicts(c) /\ resp'.reg_no = k /\ Expired(k)
        /\ \A c \in Clients :
            ( \/ Answers(c, "register")
              \/ Inserts(c)
              \/ Answers(c, "check_status") /\ resp'.status # "timeout"
              \/ ScanStep(c) /\ ~Links(c) )
            => Keys(WAITING_FOR_SCAN) \subseteq Keys(WAITING_FOR_SCAN')
      ]_vars

\* R2 was registered a second after the timeout of R1, which nobody polled:
\* R1 is still in the dictionary, before R2
C17_Witness ==
    /\ resp.op = "register" /\ resp.status = "waiting"
    /\ resp.reg_no = <<"R", "2">>
    /\ Len(WAITING_FOR_SCAN) = 2
    /\ WAITING_FOR_SCAN[1].reg_no = <<"R", "1">> /\ WAITING_FOR_SCAN[1].timestamp = 0
    /\ WAITING_FOR_SCAN[2].timestamp = TIMEOUT_SECONDS + 1

\* seconds the entry of reg_no has waited
Age(reg_no) == now - Get(WAITING_FOR_SCAN, reg_no).timestamp

\* C18: a check_status of a waiting reg_no answers 'timeout' exactly when
\* the entry is more than TIMEOUT_SECONDS old; at TIMEOUT_SECONDS sharp it
\* answers 'waiting' and the entry stays.
C18_StrictExpiry ==
    [][\A c \in Clients :
        ( /\ Answers(c, "check_status")
          /\ resp'.reg_no \in Keys(WAITING_FOR_SCAN) )
        => /\ resp'.status = "timeout" <=> Age(resp'.reg_no) > TIMEOUT_SECONDS
           /\ Age(resp'.reg_no) <= TIMEOUT_SECONDS
                => /\ resp'.status = "waiting"
                   /\ WAITING_FOR_SCAN' = WAITING_FOR_SCAN
      ]_vars

\* the registration of time 0 was polled at time 300 sharp: 'waiting', and
\* the entry is there
C18_Witness ==
    /\ resp.op = "check_status" /\ resp.status = "waiting"
    /\ resp.reg_no \in Keys(WAITING_FOR_SCAN)
    /\ Get(WAITING_FOR_SCAN, resp.reg_no).timestamp = 0
    /\ now = TIMEOUT_SECONDS

\* the step is client c's link_rfid answering an error
ScanFails(c) ==
    /\ ScanStep(c)
    /\ Answers(c, "link_rfid") /\ resp'.status = "error"

\* C19: a scan that answers an error has changed no rfid_uid of the sheet:
\* its last step leaves the sheet as it was, and if it got as far as
\* update_cell, the cell held the scanned UID before.
C19_FailedScanNoWrite ==
    [][\A c \in Clients :
        ScanFails(c) =>
            /\ sheet' = sheet
            /\ pc[c] = "link_rfid_L60" => ~frame[c].wrote
      ]_vars

\* C20: when a scan answers 'linked' and pops the entry of reg_no, the row
\* into which it wrote the UID is the row_index of the entry it pops, also
\* when a register has re-submitted reg_no while the scan was waiting on
\* the sheet.
C20_RowOfRemovedEntry ==
    [][\A c \in Clients :
        Links(c) =>
            frame[c].row_to_update =
                Get(WAITING_FOR_SCAN, frame[c].waiting_reg_no).row_index
      ]_vars

====
